---- MODULE Spec2Model ----
(***************************************************************************)
(* Model of the bill-extraction pipeline of src/services/pdfService.js     *)
(* (the version at lines 253-602: responses API, six configured models)    *)
(* and of the reply reconciler it embeds, with the route handlers of       *)
(* src/index.js, the cost calculator on its own and the upload middleware  *)
(* under concurrent requests.                                              *)
(*                                                                         *)
(* Reply text is a sequence of tokens.  One token stands for one character *)
(* class the code distinguishes:                                           *)
(*   "{" "}" "[" "]" ":" ","   the JSON punctuation                        *)
(*   "q"   a double quote          "s"   one whitespace character          *)
(*   "F"   three backticks         "J"   the letters json                  *)
(*   "a"   any other letter        "1"   a digit                           *)
(*   "N" "T" "B"   the literals null, true, false                          *)
(*   "Filename", "bill.pdf"   a whole word inside a string                 *)
(***************************************************************************)
EXTENDS Integers, Sequences, FiniteSets, TLC

\* ------------------------------------------------------------------------
\* Bounds of the model
\* ------------------------------------------------------------------------

\* How many of the configured models (a prefix of AVAILABLE_MODELS) the
\* multi-model loop iterates over.
NumModels == 3

\* Longest prose (in tokens) put before and after an embedded JSON object.
MaxProse == 2

\* Longest string value (in tokens) of the JSON objects delivered to the
\* reconciler.
MaxStr == 2

\* Number of upload requests in flight at the same time.
NumRequests == 2

\* ------------------------------------------------------------------------
\* JavaScript values produced by JSON.parse
\* ------------------------------------------------------------------------

JsNull == [kind |-> "null", val |-> <<>>]

JsObject(members) == [kind |-> "object", val |-> members]

JsArray(items) == [kind |-> "array", val |-> items]

JsString(chars) == [kind |-> "string", val |-> chars]

JsNumber(digits) == [kind |-> "number", val |-> digits]

JsBoolean(tok) == [kind |-> "boolean", val |-> <<tok>>]

\* typeof x
TypeOf(x) ==
  IF x.kind \in {"object", "array", "null"} THEN "object" ELSE x.kind

\* the truthiness of x ("!x" is its negation)
Truthy(x) ==
  CASE x.kind = "null" -> FALSE
    [] x.kind = "boolean" -> x.val = <<"T">>
    [] x.kind = "string" -> x.val # <<>>
    [] x.kind = "number" -> \E i \in DOMAIN x.val : x.val[i] # "0"
    [] OTHER -> TRUE

\* ------------------------------------------------------------------------
\* JSON.parse on token sequences (recursive descent)
\* ------------------------------------------------------------------------

ParseFail == [ok |-> FALSE, val |-> JsNull, pos |-> 0]

ParseOk(v, p) == [ok |-> TRUE, val |-> v, pos |-> p]

RECURSIVE SkipWs(_, _)
\* first position >= i that holds no whitespace (Len(s)+1 at the end)
SkipWs(s, i) ==
  IF i <= Len(s) /\ s[i] = "s" THEN SkipWs(s, i + 1) ELSE i

RECURSIVE FindFrom(_, _, _)
\* first position >= i holding token t, or 0
FindFrom(s, t, i) ==
  IF i > Len(s) THEN 0
  ELSE IF s[i] = t THEN i
  ELSE FindFrom(s, t, i + 1)

RECURSIVE DigitsEnd(_, _)
\* position after the run of digits starting at i
DigitsEnd(s, i) ==
  IF i <= Len(s) /\ s[i] \in {"0", "1"} THEN DigitsEnd(s, i + 1) ELSE i

\* JS object property assignment: an existing key keeps its place
RECURSIVE PutMember(_, _, _)
PutMember(members, k, v) ==
  IF members = <<>> THEN << <<k, v>> >>
  ELSE IF Head(members)[1] = k THEN << <<k, v>> >> \o Tail(members)
  ELSE <<Head(members)>> \o PutMember(Tail(members), k, v)

\* a string literal starting at the quote at position i
ParseString(s, i) ==
  IF i > Len(s) \/ s[i] # "q" THEN ParseFail
  ELSE LET j == FindFrom(s, "q", i + 1)
       IN IF j = 0 THEN ParseFail
          ELSE ParseOk(JsString(SubSeq(s, i + 1, j - 1)), j + 1)

RECURSIVE ParseValue(_, _)
RECURSIVE ParseMembers(_, _, _)
RECURSIVE ParseElements(_, _, _)

\* the members of an object, from position i (after "{" or after ",")
ParseMembers(s, i, acc) ==
  LET k == ParseString(s, SkipWs(s, i))
  IN IF ~k.ok THEN ParseFail
     ELSE LET c == SkipWs(s, k.pos)
          IN IF c > Len(s) \/ s[c] # ":" THEN ParseFail
             ELSE LET v == ParseValue(s, c + 1)
                  IN IF ~v.ok THEN ParseFail
                     ELSE LET e == SkipWs(s, v.pos)
                              acc2 == PutMember(acc, k.val.val, v.val)
                          IN IF e > Len(s) THEN ParseFail
                             ELSE IF s[e] = "}" THEN ParseOk(JsObject(acc2), e + 1)
                             ELSE IF s[e] = "," THEN ParseMembers(s, e + 1, acc2)
                             ELSE ParseFail

\* the elements of an array, from position i (after "[" or after ",")
ParseElements(s, i, acc) ==
  LET v == ParseValue(s, i)
  IN IF ~v.ok THEN ParseFail
     ELSE LET e == SkipWs(s, v.pos)
              acc2 == Append(acc, v.val)
          IN IF e > Len(s) THEN ParseFail
             ELSE IF s[e] = "]" THEN ParseOk(JsArray(acc2), e + 1)
             ELSE IF s[e] = "," THEN ParseElements(s, e + 1, acc2)
             ELSE ParseFail

\* one JSON value, leading whitespace allowed
ParseValue(s, i) ==
  LET p == SkipWs(s, i)
  IN IF p > Len(s) THEN ParseFail
     ELSE CASE s[p] = "{" ->
                 LET c == SkipWs(s, p + 1)
                 IN IF c <= Len(s) /\ s[c] = "}"
                    THEN ParseOk(JsObject(<<>>), c + 1)
                    ELSE ParseMembers(s, p + 1, <<>>)
            [] s[p] = "[" ->
                 LET c == SkipWs(s, p + 1)
                 IN IF c <= Len(s) /\ s[c] = "]"
                    THEN ParseOk(JsArray(<<>>), c + 1)
                    ELSE ParseElements(s, p + 1, <<>>)
            [] s[p] = "q" -> ParseString(s, p)
            [] s[p] \in {"0", "1"} ->
                 LET e == DigitsEnd(s, p)
                 IN ParseOk(JsNumber(SubSeq(s, p, e - 1)), e)
            [] s[p] = "N" -> ParseOk(JsNull, p + 1)
            [] s[p] \in {"T", "B"} -> ParseOk(JsBoolean(s[p]), p + 1)
            [] OTHER -> ParseFail

\* JSON.parse(text): one value, then only whitespace; ok = FALSE is a throw
JSONparse(text) ==
  LET v == ParseValue(text, 1)
  IN IF v.ok /\ SkipWs(text, v.pos) = Len(text) + 1
     THEN [ok |-> TRUE, val |-> v.val]
     ELSE [ok |-> FALSE, val |-> JsNull]

\* ------------------------------------------------------------------------
\* String.prototype.match for the two patterns of the fallback chain
\* ------------------------------------------------------------------------

NoMatch == [found |-> FALSE, whole |-> <<>>, group |-> <<>>]

RECURSIVE TrimEnd(_, _, _)
\* smallest e in lo..hi+1 such that s[e..hi] is all whitespace
TrimEnd(s, lo, hi) ==
  IF hi >= lo /\ s[hi] = "s" THEN TrimEnd(s, lo, hi - 1) ELSE hi + 1

\* content.match(/```(?:json)?\s*([\s\S]*?)\s*```/)
MatchFence(content) ==
  LET open == FindFrom(content, "F", 1)
  IN IF open = 0 THEN NoMatch
     ELSE LET close == FindFrom(content, "F", open + 1)
          IN IF close = 0 THEN NoMatch
             ELSE LET afterTag == IF content[open + 1] = "J" THEN open + 2 ELSE open + 1
                      start == SkipWs(content, afterTag)
                      stop == TrimEnd(content, start, close - 1)
                  IN [found |-> TRUE,
                      whole |-> SubSeq(content, open, close),
                      group |-> SubSeq(content, start, stop - 1)]

RECURSIVE FindLast(_, _, _)
\* last position in 1..i holding token t, or 0
FindLast(s, t, i) ==
  IF i = 0 THEN 0
  ELSE IF s[i] = t THEN i
  ELSE FindLast(s, t, i - 1)

\* content.match(/\{[\s\S]*\}/)
MatchBraces(content) ==
  LET open == FindFrom(content, "{", 1)
      close == FindLast(content, "}", Len(content))
  IN IF open = 0 \/ close < open THEN NoMatch
     ELSE [found |-> TRUE,
           whole |-> SubSeq(content, open, close),
           group |-> <<>>]

\* ------------------------------------------------------------------------
\* Response reconciliation: the JSON fallback chain
\* (pdfService.js 401-422 single-model, 522-543 multi-model)
\* ------------------------------------------------------------------------

\* the brace span tried before the fenced block
JsonMatch_BracesFirst(content) ==
  IF MatchBraces(content).found THEN MatchBraces(content) ELSE MatchFence(content)

\* jsonMatch = content.match(fence) || content.match(braces)
JsonMatch(content) ==
  IF MatchFence(content).found THEN MatchFence(content) ELSE MatchBraces(content)

\* jsonString = jsonMatch[1] || jsonMatch[0]   (an empty group is falsy)
JsonString(m) == IF m.group # <<>> THEN m.group ELSE m.whole

\* ok = FALSE: the inner catch was reached and the parse error is thrown
Reconcile(content) ==
  IF JSONparse(content).ok THEN JSONparse(content)
  ELSE IF ~JsonMatch(content).found THEN [ok |-> FALSE, val |-> JsNull]
  ELSE JSONparse(JsonString(JsonMatch(content)))

\* no check of the parsed value
InvalidDataFormat_Never(extractedData) == FALSE

\* if (!extractedData || typeof extractedData !== 'object') throw ...
InvalidDataFormat(extractedData) ==
  ~Truthy(extractedData) \/ TypeOf(extractedData) # "object"

\* ------------------------------------------------------------------------
\* Configured models and price table
\* ------------------------------------------------------------------------

AVAILABLE_MODELS ==
  <<"gpt-4.5-preview", "gpt-4o", "gpt-4o-mini", "o3-mini", "o1", "o1-pro">>

\* the models the loop of this model iterates over
Models == SubSeq(AVAILABLE_MODELS, 1, NumModels)

\* the default value of extractBillData's model parameter
DefaultModel == "o3-mini"

\* rates in thousandths of a dollar per million tokens
prices ==
  [m \in {"gpt-4.5-preview", "gpt-4o", "gpt-4o-mini", "o3-mini", "o1", "o1-pro"} |->
     CASE m = "gpt-4.5-preview" -> [input |-> 75000, cachedInput |-> 37500, output |-> 150000]
       [] m = "gpt-4o" -> [input |-> 2500, cachedInput |-> 1250, output |-> 10000]
       [] m = "gpt-4o-mini" -> [input |-> 150, cachedInput |-> 75, output |-> 600]
       [] m = "o3-mini" -> [input |-> 1100, cachedInput |-> 550, output |-> 4400]
       [] m = "o1" -> [input |-> 15000, cachedInput |-> 7500, output |-> 60000]
       [] m = "o1-pro" -> [input |-> 150000, cachedInput |-> 150000, output |-> 600000]]

\* A value passed as usage: undefined, null, a number, a string, or an
\* object with the token fields given by fields.
UsageArg(kind, fields) == [kind |-> kind, fields |-> fields]

\* !usage || typeof usage !== 'object' (277)
UsageRejected(u) == u.kind \in {"undefined", "null", "number", "string"}

\* usage.f || 0 on a usage object: an absent field is undefined, falsy like 0
Field(usage, f) == IF f \in DOMAIN usage THEN usage[f] ELSE 0

\* usage.prompt_tokens || usage.input_tokens || 0
PromptTokens(usage) ==
  IF Field(usage, "prompt_tokens") # 0 THEN Field(usage, "prompt_tokens")
  ELSE Field(usage, "input_tokens")

\* usage.completion_tokens || usage.output_tokens || 0
CompletionTokens(usage) ==
  IF Field(usage, "completion_tokens") # 0 THEN Field(usage, "completion_tokens")
  ELSE Field(usage, "output_tokens")

\* usage.total_tokens alone
TotalTokens_NoSum(usage) == Field(usage, "total_tokens")

\* usage.total_tokens || (promptTokens + completionTokens)
TotalTokens(usage) ==
  IF Field(usage, "total_tokens") # 0 THEN Field(usage, "total_tokens")
  ELSE PromptTokens(usage) + CompletionTokens(usage)

\* the usage object of a returned result
NormalizeUsage(usage) ==
  [kind |-> "usage",
   prompt_tokens |-> PromptTokens(usage),
   completion_tokens |-> CompletionTokens(usage),
   total_tokens |-> TotalTokens(usage)]

\* x.toFixed(2) of a rate given in thousandths, as a number of cents.  The
\* only tie of the table is 0.075, whose double lies below 0.075: it rounds
\* down.
ToFixed2(milli) == IF milli % 10 = 5 THEN milli \div 10 ELSE (milli + 5) \div 10

\* whole thousands of tokens only
Price_WholeThousands(tokens, rate) ==
  [micro |-> (tokens \div 1000) * rate, rem |-> 0]

\* (tokens / 1000000) * rate in dollars, kept exactly as whole millionths of
\* a dollar plus thousandths of a millionth (tokens * rate exceeds 32-bit
\* integers)
Price(tokens, rate) ==
  [micro |-> (tokens \div 1000) * rate + ((tokens % 1000) * rate) \div 1000,
   rem |-> ((tokens % 1000) * rate) % 1000]

\* inputPrice + outputPrice
PriceSum(a, b) ==
  [micro |-> a.micro + b.micro + (a.rem + b.rem) \div 1000,
   rem |-> (a.rem + b.rem) % 1000]

\* price.toFixed(6): a number of millionths of a dollar, rounded to nearest.
\* A price exactly halfway (rem = 500) is rounded up here; toFixed rounds the
\* double, which may lie on either side.  The token counts of FieldValues
\* and of the pipeline's usage objects produce no such price.
ToFixed6(price) == IF price.rem >= 500 THEN price.micro + 1 ELSE price.micro

\* Property names every object literal inherits from Object.prototype.  The
\* lookup prices[model] (332) is a plain property read: for such a name it
\* yields the inherited function or object, which is truthy, so the
\* gpt-4o default is not taken, and which has no input, cachedInput or
\* output property.
InheritedKeys ==
  {"constructor", "toString", "valueOf", "hasOwnProperty", "__proto__"}

\* the TypeError of modelPrices.input.toFixed(2) (341) when modelPrices.input
\* is undefined
PriceTypeError ==
  [kind |-> "throw",
   error |-> [text |-> "Cannot read properties of undefined (reading 'toFixed')",
              model |-> "", raw |-> <<>>]]

\* calculatePrice(model, usage); resp.hasUsage = FALSE is a usage the guard
\* at 277 rejects (undefined in the pipeline).  The result is the returned
\* pricing object, or PriceTypeError when the function throws.
calculatePrice(model, resp) ==
  IF ~resp.hasUsage
  THEN [kind |-> "pricing", model |-> model, na |-> TRUE,
        inputRate |-> 0, cachedInputRate |-> 0, outputRate |-> 0,
        inputCost |-> 0, outputCost |-> 0, totalCost |-> 0]
  ELSE IF model \notin DOMAIN prices /\ model \in InheritedKeys
  THEN PriceTypeError
  ELSE LET modelPrices == IF model \in DOMAIN prices THEN prices[model]
                          ELSE prices["gpt-4o"]
           inputPrice == Price(PromptTokens(resp.usage), modelPrices.input)
           outputPrice == Price(CompletionTokens(resp.usage), modelPrices.output)
       IN [kind |-> "pricing", model |-> model, na |-> FALSE,
           inputRate |-> ToFixed2(modelPrices.input),
           cachedInputRate |-> ToFixed2(modelPrices.cachedInput),
           outputRate |-> ToFixed2(modelPrices.output),
           inputCost |-> ToFixed6(inputPrice),
           outputCost |-> ToFixed6(outputPrice),
           totalCost |-> ToFixed6(PriceSum(inputPrice, outputPrice))]

\* ------------------------------------------------------------------------
\* Errors and result records
\* ------------------------------------------------------------------------

\* An Error: the template of its message, the model id interpolated into
\* the message ("" when the template has no ${model}) and the copy of the
\* raw reply interpolated into it (<<>> when the template has none).
Error(text, model, raw) == [text |-> text, model |-> model, raw |-> raw]

NoError == Error("", "", <<>>)

\* rejections of fs.readFile, pdfParse and fs.remove
ReadFileError == Error("readFile rejected", "", <<>>)

PdfParseError == Error("pdfParse rejected", "", <<>>)

RemoveError == Error("remove rejected", "", <<>>)

\* new Error(`Failed to process with model ${model}: ${error.message}`)
InvokeError(model) ==
  Error("Failed to process with model ${model}: ${error.message}", model, <<>>)

\* new Error('Failed to parse bill data from OpenAI response')
ParseErrorSingle(model, content) ==
  Error("Failed to parse bill data from OpenAI response", "", <<>>)

\* new Error(`Failed to parse bill data from ${model} response`)
ParseErrorMulti(model, content) ==
  Error("Failed to parse bill data from ${model} response", model, <<>>)

\* new Error('Invalid data format received from OpenAI')
FormatError == Error("Invalid data format received from OpenAI", "", <<>>)

\* the TypeError of reading usage.prompt_tokens when usage is undefined
UsageTypeError ==
  Error("Cannot read properties of undefined (reading 'prompt_tokens')", "", <<>>)

\* ErrorEntry with the pricing of a missing usage kept in the entry
ErrorEntry_KeepsPricing(model, modelError) ==
  [model |-> model, hasError |-> TRUE, error |-> modelError,
   data |-> JsNull, usage |-> JsNull,
   pricing |-> [kind |-> "pricing", model |-> model, na |-> TRUE,
                inputRate |-> 0, cachedInputRate |-> 0, outputRate |-> 0,
                inputCost |-> 0, outputCost |-> 0, totalCost |-> 0]]

\* the entry pushed by the per-model catch (572-584); timing is wall-clock
\* and is left out
ErrorEntry(model, modelError) ==
  [model |-> model, hasError |-> TRUE, error |-> modelError,
   data |-> JsNull, usage |-> JsNull, pricing |-> JsNull]

\* the entry pushed on the success path (549-568)
SuccessEntry(model, extractedData, resp) ==
  [model |-> model, hasError |-> FALSE, error |-> NoError,
   data |-> extractedData,
   usage |-> NormalizeUsage(resp.usage),
   pricing |-> calculatePrice(model, resp)]

\* what one iteration of the loop pushes once the remote call has returned
\* resp (507-585): parse, price, build the entry; any throw goes to the catch
IterationEntry(model, resp) ==
  IF ~Reconcile(resp.content).ok
  THEN ErrorEntry(model, ParseErrorMulti(model, resp.content))
  ELSE IF ~resp.hasUsage
  THEN ErrorEntry(model, UsageTypeError)
  ELSE SuccessEntry(model, Reconcile(resp.content).val, resp)

\* the object extractBillData returns (436-447)
SingleResult(model, extractedData, resp) ==
  [data |-> extractedData,
   usage |-> NormalizeUsage(resp.usage),
   pricing |-> calculatePrice(model, resp)]

NoResult == [data |-> JsNull, usage |-> JsNull, pricing |-> JsNull]

\* ------------------------------------------------------------------------
\* What the remote API can answer
\* ------------------------------------------------------------------------

ObjText == <<"{", "q", "a", "q", ":", "q", "1", "q", "}">>

\* an object in which the model emitted a Filename of its own
FilenameObjText == <<"{", "q", "Filename", "q", ":", "q", "a", "q", "}">>

Replies ==
  { ObjText,                                         \* {"a":"1"}
    <<"F", "J", "s">> \o ObjText \o <<"s", "F">>,    \* fenced, tagged
    <<"a", "s">> \o ObjText \o <<"s", "a">>,         \* between prose
    <<"a", "s", "a">>,                               \* prose only
    <<"F", "s", "a", "s", "F", "s">> \o ObjText,     \* fence without JSON, then an object
    <<"[", "1", ",", "1", "]">>,                     \* [1,1]
    <<"N">>,                                         \* null
    <<"1">>,                                         \* a number
    <<"q", "a", "q">>,                               \* a string
    <<"B">>,                                         \* false
    FilenameObjText }                                \* {"Filename":"a"}

ChatUsage ==
  [prompt_tokens |-> 1000000, completion_tokens |-> 0, total_tokens |-> 1000000]

ResponsesUsage == [input_tokens |-> 1200, output_tokens |-> 300]

NoUsage == [input_tokens |-> 0]

Response(content, hasUsage, usage) ==
  [content |-> content, hasUsage |-> hasUsage, usage |-> usage]

NoResponse == Response(<<>>, FALSE, NoUsage)

\* response.output_text and response.usage of a call that returned
Responses ==
  { Response(c, TRUE, ChatUsage) : c \in Replies }
    \cup { Response(ObjText, TRUE, ResponsesUsage),
           Response(ObjText, FALSE, NoUsage),
           Response(<<"a", "s", "a">>, FALSE, NoUsage) }

\* model ids extractBillData is called with
SingleModels == {DefaultModel, "gpt-4o", "custom-model"}

\* ------------------------------------------------------------------------
\* State
\* ------------------------------------------------------------------------

VARIABLES
  mode,          \* "single": extractBillData, "multi": extractBillDataWithAllModels
  model,         \* the model parameter of extractBillData
  pc,            \* where the request's async function is suspended
  fileExists,    \* the scratch file fileData.path is in storage
  idx,           \* position of the for loop in the model list
  inflight,      \* positions whose remote call has been issued and not settled
  response,      \* single-model: the settled response
  extractedData, \* single-model: the parsed reply
  results,       \* multi-model: the results array
  outcome,       \* "pending", "returned" or "thrown"
  error,         \* the error the function rejected with
  result,        \* single-model: the returned object
  apiLog,        \* history: what each remote call settled with
  removes,       \* history: every fs.remove call, in order
  rec,           \* the reconciler applied to deliveries of one JSON object
  calc,          \* calculatePrice and the usage block applied to one usage value
  conc,          \* several upload requests sharing the uploads directory
  hasFile,       \* req.file is set: the upload middleware stored a PDF
  http           \* the responses the controller has sent, in order

vars ==
  <<mode, model, pc, fileExists, idx, inflight, response, extractedData,
    results, outcome, error, result, apiLog, removes, rec, calc, conc,
    hasFile, http>>

\* the outcome of a reconciliation that has not been run
NotRun == [ok |-> FALSE, val |-> JsNull]

\* rec of a run in which the reconciler is only used inside the pipeline.
\* In a run of the reconciler on its own, one reply is reconciled: applied
\* names the delivery.
RecIdle ==
  [obj |-> JsObject(<<>>), lead |-> <<>>, trail |-> <<>>, tagged |-> FALSE,
   objectFirst |-> FALSE, applied |-> {}, raw |-> NotRun, fenced |-> NotRun,
   embedded |-> NotRun, broken |-> NotRun]

\* calc of a run in which pricing is only used inside the pipeline
CalcIdle ==
  [model |-> "", usage |-> UsageArg("undefined", <<>>), applied |-> {},
   pricing |-> JsNull, normalized |-> JsNull]

\* conc of a run with a single request
ConcIdle == [storage |-> {}, reqs |-> <<>>]

\* a history record of a remote call
Settled(failed, resp) == [failed |-> failed, resp |-> resp]

\* a history record of an fs.remove call
RemoveCall(ok, where) ==
  [ok |-> ok, where |-> where, recorded |-> Len(results), running |-> inflight]

\* The request came through a route handler: processPdfWithAllModels, or
\* processPdf, which calls extractBillData(req.file) and so with the default
\* model.  The other runs call the exported extractBillData directly.
ViaController == mode = "multi" \/ (mode = "single" /\ model = DefaultModel)

Init ==
  /\ mode \in {"single", "multi"}
  /\ model \in (IF mode = "single" THEN SingleModels ELSE {""})
  /\ hasFile \in (IF ViaController THEN BOOLEAN ELSE {TRUE})
  /\ pc = (IF hasFile THEN "readFile" ELSE "noFile")
  /\ fileExists = hasFile
  /\ idx = 1
  /\ inflight = {}
  /\ response = NoResponse
  /\ extractedData = JsNull
  /\ results = <<>>
  /\ outcome = "pending"
  /\ error = NoError
  /\ result = NoResult
  /\ apiLog = <<>>
  /\ removes = <<>>
  /\ rec = RecIdle
  /\ calc = CalcIdle
  /\ conc = ConcIdle
  /\ http = <<>>

\* ------------------------------------------------------------------------
\* extractBillData (360-452)
\* ------------------------------------------------------------------------

\* the outer catch (448-451): log and rethrow, nothing else
S_Rethrow(e) ==
  /\ outcome' = "thrown"
  /\ error' = e
  /\ pc' = "done"

\* await fs.readFile(tempFilePath)
S_ReadFile ==
  /\ mode = "single" /\ pc = "readFile"
  /\ \/ /\ pc' = "pdfParse"
        /\ UNCHANGED <<outcome, error>>
     \/ S_Rethrow(ReadFileError)
  /\ UNCHANGED <<calc, conc, hasFile, http,
                 rec, mode, model, fileExists, idx, inflight, response, extractedData,
                 results, result, apiLog, removes>>

\* await pdfParse(pdfBuffer)
S_PdfParse ==
  /\ mode = "single" /\ pc = "pdfParse"
  /\ \/ /\ pc' = "invoke"
        /\ UNCHANGED <<outcome, error>>
     \/ S_Rethrow(PdfParseError)
  /\ UNCHANGED <<calc, conc, hasFile, http,
                 rec, mode, model, fileExists, idx, inflight, response, extractedData,
                 results, result, apiLog, removes>>

\* openai.responses.create(...) is called; the function suspends on it
S_Invoke ==
  /\ mode = "single" /\ pc = "invoke"
  /\ inflight' = inflight \cup {idx}
  /\ pc' = "await"
  /\ UNCHANGED <<calc, conc, hasFile, http,
                 rec, mode, model, fileExists, idx, response, extractedData, results,
                 outcome, error, result, apiLog, removes>>

\* the remote call rejects: inner catch (396-399), then the outer catch
S_InvokeFails ==
  /\ mode = "single" /\ pc = "await" /\ idx \in inflight
  /\ inflight' = inflight \ {idx}
  /\ apiLog' = Append(apiLog, Settled(TRUE, NoResponse))
  /\ S_Rethrow(InvokeError(model))
  /\ UNCHANGED <<calc, conc, hasFile, http,
                 rec, mode, model, fileExists, idx, response, extractedData, results,
                 result, removes>>

\* the remote call returns: parse and validate the reply (394-427), then
\* call fs.remove and suspend on it
S_Reply ==
  /\ mode = "single" /\ pc = "await" /\ idx \in inflight
  /\ \E resp \in Responses :
       /\ inflight' = inflight \ {idx}
       /\ apiLog' = Append(apiLog, Settled(FALSE, resp))
       /\ response' = resp
       /\ IF ~Reconcile(resp.content).ok
          THEN /\ S_Rethrow(ParseErrorSingle(model, resp.content))
               /\ UNCHANGED extractedData
          ELSE IF InvalidDataFormat(Reconcile(resp.content).val)
          THEN /\ S_Rethrow(FormatError)
               /\ UNCHANGED extractedData
          ELSE /\ extractedData' = Reconcile(resp.content).val
               /\ pc' = "remove"
               /\ UNCHANGED <<outcome, error>>
  /\ UNCHANGED <<calc, conc, hasFile, http,
                 rec, mode, model, fileExists, idx, results, result, removes>>

\* await fs.remove(fileData.path) settles (430); then pricing and the
\* returned object (433-447)
S_Remove ==
  /\ mode = "single" /\ pc = "remove"
  /\ \/ /\ removes' = Append(removes, RemoveCall(TRUE, "try"))
        /\ fileExists' = FALSE
        /\ IF ~response.hasUsage
           THEN /\ S_Rethrow(UsageTypeError)
                /\ UNCHANGED result
           ELSE /\ result' = SingleResult(model, extractedData, response)
                /\ outcome' = "returned"
                /\ pc' = "done"
                /\ UNCHANGED error
     \/ /\ removes' = Append(removes, RemoveCall(FALSE, "try"))
        /\ S_Rethrow(RemoveError)
        /\ UNCHANGED <<fileExists, result>>
  /\ UNCHANGED <<calc, conc, hasFile, http,
                 rec, mode, model, idx, inflight, response, extractedData, results,
                 apiLog>>

\* ------------------------------------------------------------------------
\* extractBillDataWithAllModels (459-602)
\* ------------------------------------------------------------------------

\* entering the outer catch (592-597): the error is kept, fs.remove is
\* called (fileData.path is set) and the function suspends on it
M_Catch(e) ==
  /\ error' = e
  /\ pc' = "catchRemove"

\* await fs.readFile(tempFilePath)
M_ReadFile ==
  /\ mode = "multi" /\ pc = "readFile"
  /\ \/ /\ pc' = "pdfParse"
        /\ UNCHANGED error
     \/ M_Catch(ReadFileError)
  /\ UNCHANGED <<calc, conc, hasFile, http,
                 rec, mode, model, fileExists, idx, inflight, response, extractedData,
                 results, outcome, result, apiLog, removes>>

\* await pdfParse(pdfBuffer); on success the loop is entered
M_PdfParse ==
  /\ mode = "multi" /\ pc = "pdfParse"
  /\ \/ /\ pc' = "loop"
        /\ UNCHANGED error
     \/ M_Catch(PdfParseError)
  /\ UNCHANGED <<calc, conc, hasFile, http,
                 rec, mode, model, fileExists, idx, inflight, response, extractedData,
                 results, outcome, result, apiLog, removes>>

\* M_Invoke without the await: the call is issued and the loop goes on
M_Invoke_NoAwait ==
  /\ mode = "multi" /\ pc = "loop" /\ idx <= Len(Models)
  /\ inflight' = inflight \cup {idx}
  /\ idx' = idx + 1
  /\ pc' = IF idx + 1 <= Len(Models) THEN "loop" ELSE "remove"
  /\ UNCHANGED <<calc, conc, hasFile, http,
                 rec, mode, model, fileExists, response, extractedData, results,
                 outcome, error, result, apiLog, removes>>

\* loop body up to the await: openai.responses.create(...) is called for
\* the model at idx and the function suspends on it (472-499)
M_Invoke ==
  /\ mode = "multi" /\ pc = "loop" /\ idx <= Len(Models)
  /\ inflight' = inflight \cup {idx}
  /\ pc' = "await"
  /\ UNCHANGED <<calc, conc, hasFile, http,
                 rec, mode, model, fileExists, idx, response, extractedData, results,
                 outcome, error, result, apiLog, removes>>

\* M_Continue leaving the loop one model early
M_Continue_OffByOne ==
  /\ idx' = idx + 1
  /\ pc' = IF idx + 1 < Len(Models) THEN "loop" ELSE "remove"

\* after an entry has been pushed: next iteration, or leave the loop and
\* call fs.remove (589)
M_Continue ==
  /\ idx' = idx + 1
  /\ pc' = IF idx + 1 <= Len(Models) THEN "loop" ELSE "remove"

\* M_InvokeFails without the per-model catch's push: the failed model
\* leaves no entry
M_InvokeFails_Drop ==
  /\ mode = "multi" /\ pc = "await" /\ idx \in inflight
  /\ inflight' = inflight \ {idx}
  /\ apiLog' = Append(apiLog, Settled(TRUE, NoResponse))
  /\ M_Continue
  /\ UNCHANGED <<calc, conc, hasFile, http,
                 rec, mode, model, fileExists, response, extractedData, results,
                 outcome, error, result, removes>>

\* M_InvokeFails without the per-model catch: the rejection reaches the
\* outer catch and ends the request
M_InvokeFails_Rethrow ==
  /\ mode = "multi" /\ pc = "await" /\ idx \in inflight
  /\ inflight' = inflight \ {idx}
  /\ apiLog' = Append(apiLog, Settled(TRUE, NoResponse))
  /\ M_Catch(InvokeError(Models[idx]))
  /\ UNCHANGED <<calc, conc, hasFile, http,
                 rec, mode, model, fileExists, idx, response, extractedData,
                 results, outcome, result, removes>>

\* the remote call rejects: inner catch (509-512), then the per-model catch
\* pushes an error entry (570-585)
M_InvokeFails ==
  /\ mode = "multi" /\ pc = "await" /\ idx \in inflight
  /\ inflight' = inflight \ {idx}
  /\ apiLog' = Append(apiLog, Settled(TRUE, NoResponse))
  /\ results' = Append(results, ErrorEntry(Models[idx], InvokeError(Models[idx])))
  /\ M_Continue
  /\ UNCHANGED <<calc, conc, hasFile, http,
                 rec, mode, model, fileExists, response, extractedData, outcome, error,
                 result, removes>>

\* the remote call returns: the rest of the iteration (501-585) pushes the
\* model's entry
M_Reply ==
  /\ mode = "multi" /\ pc = "await" /\ idx \in inflight
  /\ \E resp \in Responses :
       /\ inflight' = inflight \ {idx}
       /\ apiLog' = Append(apiLog, Settled(FALSE, resp))
       /\ results' = Append(results, IterationEntry(Models[idx], resp))
  /\ M_Continue
  /\ UNCHANGED <<calc, conc, hasFile, http,
                 rec, mode, model, fileExists, response, extractedData, outcome, error,
                 result, removes>>

\* await fs.remove(fileData.path) after the loop settles (589-591)
M_Remove ==
  /\ mode = "multi" /\ pc = "remove"
  /\ \/ /\ removes' = Append(removes, RemoveCall(TRUE, "try"))
        /\ fileExists' = FALSE
        /\ outcome' = "returned"
        /\ pc' = "done"
        /\ UNCHANGED error
     \/ /\ removes' = Append(removes, RemoveCall(FALSE, "try"))
        /\ M_Catch(RemoveError)
        /\ UNCHANGED <<fileExists, outcome>>
  /\ UNCHANGED <<calc, conc, hasFile, http,
                 rec, mode, model, idx, inflight, response, extractedData, results,
                 result, apiLog>>

\* M_CatchRemove without the cleanup: the catch only rethrows
M_CatchRemove_NoCleanup ==
  /\ mode = "multi" /\ pc = "catchRemove"
  /\ outcome' = "thrown"
  /\ pc' = "done"
  /\ UNCHANGED <<calc, conc, hasFile, http,
                 rec, mode, model, fileExists, idx, inflight, response, extractedData,
                 results, error, result, apiLog, removes>>

\* await fs.remove(fileData.path).catch(() => {}) settles, then throw error
\* (596-600)
M_CatchRemove ==
  /\ mode = "multi" /\ pc = "catchRemove"
  /\ \/ /\ removes' = Append(removes, RemoveCall(TRUE, "catch"))
        /\ fileExists' = FALSE
     \/ /\ removes' = Append(removes, RemoveCall(FALSE, "catch"))
        /\ UNCHANGED fileExists
  /\ outcome' = "thrown"
  /\ pc' = "done"
  /\ UNCHANGED <<calc, conc, hasFile, http,
                 rec, mode, model, idx, inflight, response, extractedData, results,
                 error, result, apiLog>>

\* ------------------------------------------------------------------------
\* The route handlers (src/index.js 65-141)
\* ------------------------------------------------------------------------

\* req.file.originalname
OriginalName == JsString(<<"bill.pdf">>)

\* target[key] = value: on an object it sets the member; on an array it sets
\* a named property beside the items
SetProperty(target, key, value) ==
  IF target.kind = "object" THEN JsObject(PutMember(target.val, key, value))
  ELSE [kind |-> "array", val |-> target.val, props |-> << <<key, value>> >>]

\* the value a client reads back from what res.json sent for v:
\* JSON.stringify writes the items of an array and none of its named
\* properties
ResJson(v) == IF v.kind = "array" THEN JsArray(v.val) ELSE v

\* a response: res.status(code).json({status, message, data, usage, pricing})
HttpResponse(code, status, message, data, usage, pricing) ==
  [code |-> code, status |-> status, message |-> message, data |-> data,
   usage |-> usage, pricing |-> pricing]

\* if (!req.file) return res.status(400).json(...) (67-72, 111-116)
C_NoFile ==
  /\ mode \in {"single", "multi"} /\ pc = "noFile"
  /\ http' = Append(http, HttpResponse(400, "error",
                       Error("No PDF file provided", "", <<>>),
                       JsNull, JsNull, JsNull))
  /\ pc' = "responded"
  /\ UNCHANGED <<calc, conc, hasFile, rec, mode, model, fileExists, idx,
                 inflight, response, extractedData, results, outcome, error,
                 result, apiLog, removes>>

\* processPdf once extractBillData has settled (75-101)
C_ProcessPdf ==
  /\ mode = "single" /\ ViaController /\ pc = "done"
  /\ http' =
       Append(http,
         IF outcome = "thrown"
         THEN HttpResponse(500, "error", error, JsNull, JsNull, JsNull)
         ELSE IF Truthy(result.data) /\ TypeOf(result.data) = "object"
         THEN HttpResponse(200, "success", NoError,
                ResJson(SetProperty(result.data, <<"Filename">>, OriginalName)),
                result.usage, result.pricing)
         ELSE HttpResponse(422, "error",
                Error("Failed to extract data from the PDF", "", <<>>),
                JsNull, JsNull, JsNull))
  /\ pc' = "responded"
  /\ UNCHANGED <<calc, conc, hasFile, rec, mode, model, fileExists, idx,
                 inflight, response, extractedData, results, outcome, error,
                 result, apiLog, removes>>

\* a response of the multi-model handler:
\* res.status(code).json({status, message, filename, results})
MultiResponse(code, status, message, filename, entries) ==
  [code |-> code, status |-> status, message |-> message,
   filename |-> filename, results |-> entries]

\* what the forEach (123-127) and res.json make of one entry: Filename is
\* set on data that is truthy and of type object
BodyEntry(entry) ==
  IF Truthy(entry.data) /\ TypeOf(entry.data) = "object"
  THEN [entry EXCEPT
          !.data = ResJson(SetProperty(entry.data, <<"Filename">>, OriginalName))]
  ELSE entry

\* processPdfWithAllModels once extractBillDataWithAllModels has settled
\* (119-140)
C_ProcessPdfWithAllModels ==
  /\ mode = "multi" /\ pc = "done"
  /\ http' =
       Append(http,
         IF outcome = "thrown"
         THEN MultiResponse(500, "error", error, JsNull, JsNull)
         ELSE MultiResponse(200, "success", NoError, OriginalName,
                [i \in DOMAIN results |-> BodyEntry(results[i])]))
  /\ pc' = "responded"
  /\ UNCHANGED <<calc, conc, hasFile, rec, mode, model, fileExists, idx,
                 inflight, response, extractedData, results, outcome, error,
                 result, apiLog, removes>>

Next ==
  \/ C_NoFile
  \/ C_ProcessPdf
  \/ C_ProcessPdfWithAllModels
  \/ S_ReadFile
  \/ S_PdfParse
  \/ S_Invoke
  \/ S_InvokeFails
  \/ S_Reply
  \/ S_Remove
  \/ M_ReadFile
  \/ M_PdfParse
  \/ M_Invoke
  \/ M_InvokeFails
  \/ M_Reply
  \/ M_Remove
  \/ M_CatchRemove

Spec == Init /\ [][Next]_vars

\* ------------------------------------------------------------------------
\* Properties of extractBillDataWithAllModels
\* ------------------------------------------------------------------------

\* the pipeline of the i-th model failed: the remote call rejected, the
\* reply was not recoverable, or the response carried no usage
PipelineFailed(i) ==
  \/ apiLog[i].failed
  \/ ~Reconcile(apiLog[i].resp.content).ok
  \/ ~apiLog[i].resp.hasUsage

\* C1: the returned result list has one entry per configured model, in the
\* configured order, and the entry of every model that did not fail carries
\* the data parsed from that model's own reply, its own usage and its own
\* pricing, whichever other models failed.
C1_OneEntryPerModel ==
  mode = "multi" =>
    /\ outcome = "returned" => Len(results) = Len(Models)
    /\ Len(results) = Len(apiLog)
    /\ \A i \in DOMAIN results :
         /\ results[i].model = Models[i]
         /\ ~PipelineFailed(i) =>
              /\ ~results[i].hasError
              /\ results[i].data = Reconcile(apiLog[i].resp.content).val
              /\ results[i].usage = NormalizeUsage(apiLog[i].resp.usage)
              /\ results[i].pricing = calculatePrice(Models[i], apiLog[i].resp)

\* three models, the second failed, the first and third did not
C1_Witness ==
  /\ mode = "multi" /\ outcome = "returned"
  /\ Len(results) = 3
  /\ apiLog[2].failed /\ results[2].hasError
  /\ ~results[1].hasError /\ results[1].data.kind = "object"
  /\ ~results[3].hasError /\ results[3].data.kind = "object"

\* C2: every model whose pipeline failed has an entry with error set to a
\* message and data, usage and pricing null, and every entry with error set
\* has data, usage and pricing null.
C2_FailedEntryAllNull ==
  mode = "multi" =>
    \A i \in DOMAIN results :
      /\ PipelineFailed(i) => results[i].hasError /\ results[i].error.text # ""
      /\ results[i].hasError =>
           /\ results[i].data = JsNull
           /\ results[i].usage = JsNull
           /\ results[i].pricing = JsNull

\* one entry failed at invocation and one at reply parsing
C2_Witness ==
  /\ mode = "multi" /\ outcome = "returned"
  /\ \E i, j \in DOMAIN results :
       /\ apiLog[i].failed /\ results[i].hasError
       /\ ~apiLog[j].failed /\ ~Reconcile(apiLog[j].resp.content).ok
       /\ results[j].hasError

\* C3: once a multi-model request has completed, by returning or by
\* throwing, the scratch file is gone unless the last removal itself failed.
C3_MultiScratchFileGone ==
  (mode = "multi" /\ pc = "done") =>
    /\ removes # <<>>
    /\ removes[Len(removes)].ok => ~fileExists

\* text extraction failed before any model ran, the request threw, and the
\* file is gone
C3_Witness ==
  /\ mode = "multi" /\ pc = "done" /\ outcome = "thrown"
  /\ error = PdfParseError /\ results = <<>>
  /\ ~fileExists

\* C4 (as claimed): once a single-model request has completed on any exit
\* path, the scratch file is absent from storage.
C4_SingleScratchFileGone ==
  (mode = "single" /\ pc = "done") => ~fileExists

\* C5: the per-model pipelines run one after another: at most one remote
\* call is in flight, and while the call for the k-th model is in flight the
\* entries of the k-1 models before it have all been appended.
C5_Sequential ==
  mode = "multi" =>
    /\ Cardinality(inflight) <= 1
    /\ \A k \in inflight : Len(results) = k - 1 /\ Len(apiLog) = k - 1

\* the second model's call is in flight and the first model's entry is there
C5_Witness ==
  /\ mode = "multi" /\ inflight = {2} /\ Len(results) = 1

\* C6 (as claimed): no removal of the scratch file happens before the last
\* model's entry has been recorded, and a request that returns has removed
\* the file exactly once.
C6_RemoveOnlyAfterAllModels ==
  mode = "multi" =>
    /\ \A i \in DOMAIN removes : removes[i].recorded = Len(Models)
    /\ outcome = "returned" => Len(removes) = 1

\* C6 (amended): once the PDF has been read and text-extracted, no removal
\* is attempted before every configured model's entry has been recorded and
\* while a remote call is in flight; a request that returns has made exactly
\* one removal call, and it succeeded; only the error handler of a failed
\* read or text extraction removes the file with no model run, once.
C6_RemoveOnceAfterLoop ==
  mode = "multi" =>
    /\ \A i \in DOMAIN removes :
         /\ removes[i].running = {}
         /\ \/ removes[i].recorded = Len(Models)
            \/ /\ error \in {ReadFileError, PdfParseError}
               /\ removes[i].recorded = 0 /\ Len(removes) = 1
    /\ outcome = "returned" =>
         /\ Len(removes) = 1 /\ removes[1].ok /\ removes[1].where = "try"
         /\ ~fileExists

\* all models ran, some failed, the file was then removed once
C6_Witness ==
  /\ mode = "multi" /\ outcome = "returned"
  /\ Len(results) = Len(Models)
  /\ \E i \in DOMAIN results : results[i].hasError
  /\ Len(removes) = 1 /\ removes[1].recorded = Len(Models)

\* ------------------------------------------------------------------------
\* Properties of cleanup failures and of the reply checks
\* ------------------------------------------------------------------------

\* C7 (as claimed): a failure of the scratch-file removal is never what the
\* caller sees: a request whose removal failed after an otherwise successful
\* pipeline still returns, and no request rejects with the removal's error.
C7_RemoveFailureSwallowed ==
  pc = "done" =>
    /\ error # RemoveError
    /\ (removes # <<>> /\ ~removes[1].ok /\ removes[1].where = "try") =>
         outcome = "returned"

\* C8 (as claimed): in single-model mode a reply whose JSON value is an
\* array ends the request with the invalid-data-format error and is never
\* kept as the extracted data.
C8_ArrayRejected ==
  (/\ mode = "single" /\ apiLog # <<>> /\ ~apiLog[1].failed
   /\ JSONparse(apiLog[1].resp.content).ok
   /\ JSONparse(apiLog[1].resp.content).val.kind = "array") =>
    /\ outcome = "thrown" /\ error = FormatError
    /\ extractedData.kind # "array" /\ result.data.kind # "array"

\* the message of e names model m
NamesModel(e, m) == e.model = m

\* the message of e includes a truncated, non-empty copy of content
IncludesRawCopy(e, content) ==
  /\ e.raw # <<>>
  /\ Len(e.raw) <= Len(content)
  /\ e.raw = SubSeq(content, 1, Len(e.raw))

\* C10 (as claimed): when no strategy recovers the reply, the parse error
\* names the model that produced it and includes a truncated copy of the
\* raw reply, in single-model mode (the thrown error) and in multi-model
\* mode (the entry's error).
C10_ParseErrorNamesModelAndRaw ==
  /\ (/\ mode = "single" /\ apiLog # <<>> /\ ~apiLog[1].failed
      /\ ~Reconcile(apiLog[1].resp.content).ok) =>
       /\ outcome = "thrown"
       /\ NamesModel(error, model)
       /\ IncludesRawCopy(error, apiLog[1].resp.content)
  /\ mode = "multi" =>
       \A i \in DOMAIN results :
         (~apiLog[i].failed /\ ~Reconcile(apiLog[i].resp.content).ok) =>
           /\ results[i].hasError
           /\ NamesModel(results[i].error, Models[i])
           /\ IncludesRawCopy(results[i].error, apiLog[i].resp.content)

\* C11 (as claimed): when a remote call settles with a response that holds
\* no usage object, the invocation fails with an error that names the
\* model: in single-model mode the request ends with that error, in
\* multi-model mode the model's entry has it as its error.
C11_MissingUsageNamesModel ==
  /\ (/\ mode = "single" /\ pc = "done" /\ apiLog # <<>>
      /\ ~apiLog[1].failed /\ ~apiLog[1].resp.hasUsage) =>
       /\ outcome = "thrown"
       /\ NamesModel(error, model)
  /\ mode = "multi" =>
       \A i \in DOMAIN results :
         (~apiLog[i].failed /\ ~apiLog[i].resp.hasUsage) =>
           /\ results[i].hasError
           /\ NamesModel(results[i].error, Models[i])

\* C18 (as claimed): in multi-model mode a reply that parses as JSON but is
\* not a mapping (an array, a number, a string, true or false, null) makes
\* the model's entry a failure: error set and data null.
C18_MultiRejectsNonMapping ==
  mode = "multi" =>
    \A i \in DOMAIN results :
      (/\ ~apiLog[i].failed
       /\ JSONparse(apiLog[i].resp.content).ok
       /\ JSONparse(apiLog[i].resp.content).val.kind # "object") =>
        /\ results[i].hasError
        /\ results[i].data = JsNull

\* ------------------------------------------------------------------------
\* Properties of the single-model route handler
\* ------------------------------------------------------------------------

\* the value of member k of object members, JsNull when there is none
RECURSIVE GetMember(_, _)
GetMember(members, k) ==
  IF members = <<>> THEN JsNull
  ELSE IF Head(members)[1] = k THEN Head(members)[2]
  ELSE GetMember(Tail(members), k)

\* a single-model request that came through processPdf
SingleRequest == mode = "single" /\ ViaController

\* C16 (as claimed): a single-model request ends in exactly one response.
\* With a file: 200 'success' carrying the extracted field map, whose
\* Filename is the upload's original name whatever the model emitted, when
\* the pipeline returns; 422 'error' when it yields no usable data; 500
\* 'error' with the pipeline's message when it throws.  Without a file: 400,
\* and the pipeline is never started.
C16_OneResponsePerRequest ==
  SingleRequest =>
    /\ Len(http) <= 1
    /\ Len(http) = 1 <=> pc = "responded"
    /\ (pc = "responded" /\ hasFile) =>
         /\ outcome = "thrown" =>
              /\ http[1].code = 500 /\ http[1].status = "error"
              /\ http[1].message = error
         /\ outcome = "returned" => http[1].code \in {200, 422}
         /\ http[1].code = 422 => http[1].status = "error"
         /\ http[1].code = 200 =>
              /\ http[1].status = "success"
              /\ http[1].data.kind = "object"
              /\ GetMember(http[1].data.val, <<"Filename">>) = OriginalName
    /\ ~hasFile =>
         /\ outcome = "pending" /\ apiLog = <<>> /\ removes = <<>>
         /\ pc = "responded" => http[1].code = 400

\* C16, for replies that are not a JSON array
C16_OneResponseExceptArrays ==
  (SingleRequest /\ extractedData.kind # "array") => C16_OneResponsePerRequest

\* C20: processPdf never answers 422: extractBillData throws, or returns a
\* result whose data is truthy and of type object, which is what the
\* handler's check asks for.
C20_NoUnprocessable ==
  /\ \A i \in DOMAIN http : http[i].code # 422
  /\ (mode = "single" /\ outcome = "returned") =>
       /\ Truthy(result.data) /\ TypeOf(result.data) = "object"

\* extractBillData returned and the handler answered 200 with the data, and
\* the Filename the model emitted was replaced
C20_Witness ==
  /\ SingleRequest /\ pc = "responded" /\ outcome = "returned"
  /\ http[1].code = 200
  /\ apiLog[1].resp.content = FilenameObjText
  /\ GetMember(http[1].data.val, <<"Filename">>) = OriginalName

\* ------------------------------------------------------------------------
\* Properties of the multi-model route handler
\* ------------------------------------------------------------------------

\* C21: a multi-model request with a file gets exactly one response.  It is
\* 500 'error' exactly when reading the PDF, extracting its text or the
\* removal of the scratch file after the loop failed, and then it carries
\* no results list; otherwise, whatever the models did and even when every
\* one of them failed, it is 200 'success' with one entry per configured
\* model, in the configured order.
C21_MultiAnswersWithFullList ==
  (mode = "multi" /\ hasFile) =>
    /\ Len(http) <= 1
    /\ Len(http) = 1 <=> pc = "responded"
    /\ pc = "responded" =>
         /\ http[1].code \in {200, 500}
         /\ http[1].code = 500 <=>
              \/ error \in {ReadFileError, PdfParseError}
              \/ \E i \in DOMAIN removes :
                   removes[i].where = "try" /\ ~removes[i].ok
         /\ http[1].code = 500 =>
              /\ http[1].status = "error"
              /\ http[1].message = error
              /\ http[1].results = JsNull
         /\ http[1].code = 200 =>
              /\ http[1].status = "success"
              /\ Len(apiLog) = Len(Models)
              /\ Len(http[1].results) = Len(Models)
              /\ \A i \in DOMAIN Models :
                   /\ http[1].results[i].model = Models[i]
                   /\ http[1].results[i].hasError = PipelineFailed(i)

\* every configured model failed and the request was answered 200 with the
\* full list
C21_Witness ==
  /\ mode = "multi" /\ pc = "responded"
  /\ http[1].code = 200 /\ http[1].status = "success"
  /\ Len(http[1].results) = Len(Models)
  /\ \A i \in DOMAIN http[1].results : http[1].results[i].hasError
  /\ \E i \in DOMAIN apiLog : apiLog[i].failed

\* ------------------------------------------------------------------------
\* The reconciler on its own: one JSON object delivered in three ways
\* ------------------------------------------------------------------------

\* all token sequences over alphabet of length at most n
RECURSIVE SeqsUpTo(_, _)
SeqsUpTo(alphabet, n) ==
  IF n = 0 THEN { <<>> }
  ELSE SeqsUpTo(alphabet, n - 1)
         \cup { Append(t, c) : t \in SeqsUpTo(alphabet, n - 1), c \in alphabet }

\* string values: letters, a triple backtick, braces
StringValues == { JsString(t) : t \in SeqsUpTo({"a", "F", "{", "}"}, MaxStr) }

ScalarValues == StringValues \cup { JsNumber(<<"1">>), JsNull }

\* JSON objects with up to two members
Objects ==
  { JsObject(<<>>) }
    \cup { JsObject(<< <<<<"a">>, v>> >>) : v \in ScalarValues }
    \cup { JsObject(<< <<<<"a">>, v>>, <<<<"a", "a">>, JsNumber(<<"1", "1">>)>> >>) :
             v \in ScalarValues }

\* prose: letters and whitespace, no brace and no fence
Prose == SeqsUpTo({"a", "s"}, MaxProse)

\* the JSON text of a scalar
ScalarText(v) ==
  CASE v.kind = "string" -> <<"q">> \o v.val \o <<"q">>
    [] v.kind = "number" -> v.val
    [] v.kind = "null" -> <<"N">>

\* the JSON text of the members ms of an object
RECURSIVE MembersText(_)
MembersText(ms) ==
  IF ms = <<>> THEN <<>>
  ELSE <<"q">> \o Head(ms)[1] \o <<"q", ":">> \o ScalarText(Head(ms)[2])
         \o (IF Tail(ms) = <<>> THEN <<>> ELSE <<",">> \o MembersText(Tail(ms)))

\* the JSON text of object o
ObjectText(o) == <<"{">> \o MembersText(o.val) \o <<"}">>

\* the three deliveries of object o
RawDelivery(o) == ObjectText(o)

FencedDelivery(o, tagged) ==
  <<"F">> \o (IF tagged THEN <<"J">> ELSE <<>>) \o <<"s">> \o ObjectText(o)
    \o <<"s", "F">>

EmbeddedDelivery(o, lead, trail) == lead \o ObjectText(o) \o trail

\* a fenced code block whose interior is prose, and the object's JSON text
\* outside the block, before or after it
BrokenFenceDelivery(o, interior, tagged, objectFirst) ==
  LET block == <<"F">> \o (IF tagged THEN <<"J">> ELSE <<>>) \o <<"s">>
                 \o interior \o <<"s", "F">>
  IN IF objectFirst THEN ObjectText(o) \o <<"s">> \o block
     ELSE block \o <<"s">> \o ObjectText(o)

InitReconcile ==
  /\ mode = "reconcile"
  /\ model = ""
  /\ pc = "idle"
  /\ fileExists = FALSE
  /\ idx = 1
  /\ inflight = {}
  /\ response = NoResponse
  /\ extractedData = JsNull
  /\ results = <<>>
  /\ outcome = "pending"
  /\ error = NoError
  /\ result = NoResult
  /\ apiLog = <<>>
  /\ removes = <<>>
  /\ calc = CalcIdle
  /\ conc = ConcIdle
  /\ hasFile = FALSE
  /\ http = <<>>
  /\ \E o \in Objects, lead \in Prose, trail \in Prose, tagged \in BOOLEAN :
       rec = [RecIdle EXCEPT !.obj = o, !.lead = lead, !.trail = trail,
                             !.tagged = tagged]

\* the reply is exactly the object's JSON text
R_Raw ==
  /\ mode = "reconcile" /\ rec.applied = {}
  /\ rec' = [rec EXCEPT !.applied = @ \cup {"raw"},
                        !.raw = Reconcile(RawDelivery(rec.obj))]
  /\ UNCHANGED <<calc, conc, hasFile, http,
                 mode, model, pc, fileExists, idx, inflight, response,
                 extractedData, results, outcome, error, result, apiLog, removes>>

\* the reply wraps the object's JSON text in a fenced code block
R_Fenced ==
  /\ mode = "reconcile" /\ rec.applied = {}
  /\ rec' = [rec EXCEPT !.applied = @ \cup {"fenced"},
                        !.fenced = Reconcile(FencedDelivery(rec.obj, rec.tagged))]
  /\ UNCHANGED <<calc, conc, hasFile, http,
                 mode, model, pc, fileExists, idx, inflight, response,
                 extractedData, results, outcome, error, result, apiLog, removes>>

\* the reply embeds the object's JSON text between prose
R_Embedded ==
  /\ mode = "reconcile" /\ rec.applied = {}
  /\ rec' = [rec EXCEPT !.applied = @ \cup {"embedded"},
                        !.embedded =
                          Reconcile(EmbeddedDelivery(rec.obj, rec.lead, rec.trail))]
  /\ UNCHANGED <<calc, conc, hasFile, http,
                 mode, model, pc, fileExists, idx, inflight, response,
                 extractedData, results, outcome, error, result, apiLog, removes>>

\* the reply holds a fenced block of prose and the object outside it
R_BrokenFence ==
  /\ mode = "reconcile" /\ rec.applied = {}
  /\ \E first \in BOOLEAN :
       rec' = [rec EXCEPT !.applied = @ \cup {"broken"},
                          !.objectFirst = first,
                          !.broken =
                            Reconcile(BrokenFenceDelivery(rec.obj, rec.lead,
                                                          rec.tagged, first))]
  /\ UNCHANGED <<calc, conc, hasFile, http,
                 mode, model, pc, fileExists, idx, inflight, response,
                 extractedData, results, outcome, error, result, apiLog, removes>>

NextReconcile ==
  \/ R_Raw
  \/ R_Fenced
  \/ R_Embedded
  \/ R_BrokenFence

SpecReconcile == InitReconcile /\ [][NextReconcile]_vars

\* C9 (as claimed): for every JSON object, the raw, the fenced and the
\* embedded delivery are all recovered, and as the same mapping: the object.
C9_RoundTrip ==
  mode = "reconcile" =>
    /\ "raw" \in rec.applied => rec.raw = [ok |-> TRUE, val |-> rec.obj]
    /\ "fenced" \in rec.applied => rec.fenced = [ok |-> TRUE, val |-> rec.obj]
    /\ "embedded" \in rec.applied => rec.embedded = [ok |-> TRUE, val |-> rec.obj]

\* the text of object o holds a triple backtick
HasFence(o) == FindFrom(ObjectText(o), "F", 1) # 0

\* C9, for objects whose JSON text holds no triple backtick: the three
\* deliveries are recovered as the same mapping.
C9_RoundTripWithoutFence ==
  (mode = "reconcile" /\ ~HasFence(rec.obj)) =>
    /\ "raw" \in rec.applied => rec.raw = [ok |-> TRUE, val |-> rec.obj]
    /\ "fenced" \in rec.applied => rec.fenced = [ok |-> TRUE, val |-> rec.obj]
    /\ "embedded" \in rec.applied => rec.embedded = [ok |-> TRUE, val |-> rec.obj]

\* ------------------------------------------------------------------------
\* The cost calculator and the usage block on their own
\* ------------------------------------------------------------------------

\* model ids: the keys of the price table, an id the table does not have,
\* and an id that is an inherited property name
PriceModels == DOMAIN prices \cup {"custom-model", "constructor"}

\* the values a token field of a usage object takes (no cost computed from
\* them lies halfway between two millionths of a dollar)
FieldValues ==
  [prompt_tokens |-> {0, 1000000}, completion_tokens |-> {0, 300},
   input_tokens |-> {0, 1200}, output_tokens |-> {0, 8},
   total_tokens |-> {0, 77}]

\* usage objects: every subset of the five token fields
UsageObjects ==
  UNION { { u \in [D -> {0, 8, 77, 300, 1200, 1000000}] :
              \A f \in D : u[f] \in FieldValues[f] } :
          D \in SUBSET DOMAIN FieldValues }

UsageArgs ==
  { UsageArg(k, <<>>) : k \in {"undefined", "null", "number", "string"} }
    \cup { UsageArg("object", u) : u \in UsageObjects }

\* calculatePrice(modelId, u) for a usage value u
CalculatePriceOn(modelId, u) ==
  calculatePrice(modelId, Response(<<>>, ~UsageRejected(u), u.fields))

\* The usage block of the returned object (438-445, 553-560) for a usage
\* value u: reading a property of undefined or null throws, a number or a
\* string has none of the fields.
NormalizeUsageOn(u) ==
  IF u.kind \in {"undefined", "null"}
  THEN [kind |-> "throw", error |-> UsageTypeError]
  ELSE NormalizeUsage(u.fields)

InitPrice ==
  /\ mode = "price"
  /\ model = ""
  /\ pc = "idle"
  /\ fileExists = FALSE
  /\ idx = 1
  /\ inflight = {}
  /\ response = NoResponse
  /\ extractedData = JsNull
  /\ results = <<>>
  /\ outcome = "pending"
  /\ error = NoError
  /\ result = NoResult
  /\ apiLog = <<>>
  /\ removes = <<>>
  /\ rec = RecIdle
  /\ conc = ConcIdle
  /\ hasFile = FALSE
  /\ http = <<>>
  /\ \E m \in PriceModels, u \in UsageArgs :
       calc = [CalcIdle EXCEPT !.model = m, !.usage = u]

\* const pricing = calculatePrice(model, usage)
P_CalculatePrice ==
  /\ mode = "price" /\ "price" \notin calc.applied
  /\ calc' = [calc EXCEPT !.applied = @ \cup {"price"},
                          !.pricing = CalculatePriceOn(calc.model, calc.usage)]
  /\ UNCHANGED <<conc, hasFile, http, rec, mode, model, pc, fileExists, idx,
                 inflight, response, extractedData, results, outcome, error,
                 result, apiLog, removes>>

\* usage: { prompt_tokens: ..., completion_tokens: ..., total_tokens: ... }
P_NormalizeUsage ==
  /\ mode = "price" /\ "usage" \notin calc.applied
  /\ calc' = [calc EXCEPT !.applied = @ \cup {"usage"},
                          !.normalized = NormalizeUsageOn(calc.usage)]
  /\ UNCHANGED <<conc, hasFile, http, rec, mode, model, pc, fileExists, idx,
                 inflight, response, extractedData, results, outcome, error,
                 result, apiLog, removes>>

NextPrice ==
  \/ P_CalculatePrice
  \/ P_NormalizeUsage

SpecPrice == InitPrice /\ [][NextPrice]_vars

\* the pricing object was computed for a usage object
Priced == mode = "price" /\ "price" \in calc.applied

\* C12 (as claimed): calculatePrice throws for no usage value: a usage that
\* is undefined, null or not an object yields a pricing object whose rates
\* and costs are all 'N/A'; a usage object yields a priced result in which
\* a missing token count is 0.
C12_PriceNeverThrows ==
  Priced =>
    /\ calc.pricing.kind = "pricing"
    /\ UsageRejected(calc.usage) => calc.pricing.na
    /\ ~UsageRejected(calc.usage) =>
         /\ ~calc.pricing.na
         /\ ("prompt_tokens" \notin DOMAIN calc.usage.fields
               /\ "input_tokens" \notin DOMAIN calc.usage.fields)
              => calc.pricing.inputCost = 0
         /\ ("completion_tokens" \notin DOMAIN calc.usage.fields
               /\ "output_tokens" \notin DOMAIN calc.usage.fields)
              => calc.pricing.outputCost = 0

\* C12, for model ids that are not inherited property names: no usage value
\* makes calculatePrice throw.
C12_PriceNeverThrowsOwnKeys ==
  (Priced /\ calc.model \notin InheritedKeys) =>
    /\ calc.pricing.kind = "pricing"
    /\ calc.pricing.na = UsageRejected(calc.usage)

\* C13 (as claimed): for a model id that is not a key of the price table
\* calculatePrice returns, and its rates and costs are those of gpt-4o
\* ($2.50 input, $1.25 cached input, $10.00 output per million tokens) for
\* the same usage.
C13_UnknownModelPricedAsDefault ==
  (Priced /\ calc.model \notin DOMAIN prices) =>
    LET p == calc.pricing
        g == CalculatePriceOn("gpt-4o", calc.usage)
    IN /\ p.kind = "pricing"
       /\ p.na = g.na
       /\ ~p.na =>
            /\ p.inputRate = 250 /\ p.cachedInputRate = 125
            /\ p.outputRate = 1000
            /\ p.inputCost = g.inputCost /\ p.outputCost = g.outputCost
            /\ p.totalCost = g.totalCost

\* the usage block was evaluated for a usage object
Normalized ==
  mode = "price" /\ "usage" \in calc.applied /\ calc.usage.kind = "object"

\* the count named first in usage object u, that named second when u has no
\* field first, 0 when it has neither
NamedCount(u, first, second) ==
  IF first \in DOMAIN u THEN u[first]
  ELSE IF second \in DOMAIN u THEN u[second] ELSE 0

\* C14 (as claimed): for a usage object without total_tokens the returned
\* total_tokens is the returned prompt_tokens plus the returned
\* completion_tokens, the prompt count being prompt_tokens or, when that
\* field is absent, input_tokens, the completion count completion_tokens or,
\* when absent, output_tokens, and 0 when both are absent.
C14_TotalIsSumOfNamedCounts ==
  (Normalized /\ "total_tokens" \notin DOMAIN calc.usage.fields) =>
    LET u == calc.usage.fields
        n == calc.normalized
    IN /\ n.total_tokens = n.prompt_tokens + n.completion_tokens
       /\ n.prompt_tokens = NamedCount(u, "prompt_tokens", "input_tokens")
       /\ n.completion_tokens =
            NamedCount(u, "completion_tokens", "output_tokens")

\* the count named first in usage object u, that named second when u has no
\* field first or has it as 0, 0 when it has neither
NonZeroCount(u, first, second) ==
  IF first \in DOMAIN u /\ u[first] # 0 THEN u[first]
  ELSE IF second \in DOMAIN u THEN u[second] ELSE 0

\* C14 (amended): for a usage object without total_tokens the returned
\* total_tokens is the returned prompt_tokens plus the returned
\* completion_tokens, the prompt count being prompt_tokens or, when that
\* field is absent or 0, input_tokens, the completion count
\* completion_tokens or, when absent or 0, output_tokens, and 0 when both
\* are absent.
C14_TotalIsSumOfNonZeroCounts ==
  (Normalized /\ "total_tokens" \notin DOMAIN calc.usage.fields) =>
    LET u == calc.usage.fields
        n == calc.normalized
    IN /\ n.total_tokens = n.prompt_tokens + n.completion_tokens
       /\ n.prompt_tokens = NonZeroCount(u, "prompt_tokens", "input_tokens")
       /\ n.completion_tokens =
            NonZeroCount(u, "completion_tokens", "output_tokens")

\* a usage object of the responses API, without total_tokens, was normalized
\* to a non-zero total
C14_Witness ==
  /\ Normalized
  /\ DOMAIN calc.usage.fields = {"input_tokens", "output_tokens"}
  /\ calc.normalized.prompt_tokens = 1200
  /\ calc.normalized.completion_tokens = 8
  /\ calc.normalized.total_tokens = 1208

\* (pt / 1000000) * ir + (ct / 1000000) * orate in whole millionths of a
\* dollar, rounded to nearest (rates in thousandths of a dollar per million)
RoundedMicro(pt, ir, ct, orate) ==
  (pt \div 1000) * ir + (ct \div 1000) * orate
    + ((pt % 1000) * ir + (ct % 1000) * orate + 500) \div 1000

\* C15: for every model of the price table and every usage object with
\* non-negative integer counts, the input cost is promptTokens / 1000000
\* times the model's input rate, the output cost is completionTokens /
\* 1000000 times its output rate and the total cost is their sum, each to
\* six decimals; 1000000 prompt tokens and no completion tokens at $2.50
\* per million give $2.500000, $0.000000 and $2.500000.
C15_CostsFromRates ==
  (Priced /\ calc.model \in DOMAIN prices /\ ~UsageRejected(calc.usage)) =>
    LET p == calc.pricing
        r == prices[calc.model]
        pt == NonZeroCount(calc.usage.fields, "prompt_tokens", "input_tokens")
        ct == NonZeroCount(calc.usage.fields, "completion_tokens",
                           "output_tokens")
    IN /\ p.kind = "pricing" /\ ~p.na
       /\ p.inputCost = RoundedMicro(pt, r.input, 0, 0)
       /\ p.outputCost = RoundedMicro(0, 0, ct, r.output)
       /\ p.totalCost = RoundedMicro(pt, r.input, ct, r.output)
       /\ (r.input = 2500 /\ pt = 1000000 /\ ct = 0) =>
            /\ p.inputCost = 2500000
            /\ p.outputCost = 0
            /\ p.totalCost = 2500000

\* gpt-4o priced 1000000 prompt tokens and no completion tokens
C15_Witness ==
  /\ Priced /\ calc.model = "gpt-4o"
  /\ calc.usage.kind = "object"
  /\ calc.usage.fields = [prompt_tokens |-> 1000000, completion_tokens |-> 0]
  /\ calc.pricing.inputCost = 2500000
  /\ calc.pricing.totalCost = 2500000

\* the reply of a run that reconciled a broken-fence delivery
BrokenReply ==
  BrokenFenceDelivery(rec.obj, rec.lead, rec.tagged, rec.objectFirst)

\* C17: the strategies are tried in the order direct parse, fenced block,
\* brace span, and the brace span only when the reply has no fenced block:
\* the object's own text is parsed directly even when it holds a triple
\* backtick, and a reply that is not JSON as a whole and holds a fenced
\* block whose interior is not JSON ends in the parse error although a
\* parsable {...} span stands outside the block.
C17_FenceBeforeBraces ==
  mode = "reconcile" =>
    /\ "raw" \in rec.applied => rec.raw = [ok |-> TRUE, val |-> rec.obj]
    /\ ("broken" \in rec.applied /\ (~rec.objectFirst \/ ~HasFence(rec.obj))) =>
         /\ ~JSONparse(BrokenReply).ok
         /\ ~rec.broken.ok

\* a block of prose came first, the brace span after it is the object's
\* text and parses, and the reply was not recovered
C17_Witness ==
  /\ mode = "reconcile" /\ "broken" \in rec.applied /\ ~rec.objectFirst
  /\ rec.lead = <<"a">>
  /\ MatchBraces(BrokenReply).found
  /\ JSONparse(MatchBraces(BrokenReply).whole) = [ok |-> TRUE, val |-> rec.obj]
  /\ ~rec.broken.ok


\* ------------------------------------------------------------------------
\* Concurrent upload requests sharing the uploads directory
\* (src/unnamed/part_001 14-23; pdfService.js 360-452, 459-602)
\* ------------------------------------------------------------------------

\* names the filename callback can produce: Date.now() + '-' +
\* Math.round(Math.random() * 1E9) + extension, here for two draws of
\* Math.random within one millisecond
NamePool == {"1700000000000-1.pdf", "1700000000000-2.pdf"}

Requests == 1 .. NumRequests

\* a request of the given kind ("single" or "multi") before its upload:
\* path is req.file.path, read the request whose upload the bytes it read
\* came from (0: nothing read), removed the request whose upload its
\* fs.remove deleted (0: none), wiped whether its fs.remove deleted a file
\* that another request in flight still had to read
ConcRequest(kind) ==
  [kind |-> kind, pc |-> "upload", path |-> "", read |-> 0, removed |-> 0,
   wiped |-> FALSE]

\* the request whose upload is stored under name, 0 when there is no file
StoredBy(storage, name) ==
  IF \E f \in storage : f[1] = name
  THEN (CHOOSE f \in storage : f[1] = name)[2]
  ELSE 0

InitConcurrent ==
  /\ mode = "concurrent"
  /\ model = ""
  /\ pc = "idle"
  /\ fileExists = FALSE
  /\ idx = 1
  /\ inflight = {}
  /\ response = NoResponse
  /\ extractedData = JsNull
  /\ results = <<>>
  /\ outcome = "pending"
  /\ error = NoError
  /\ result = NoResult
  /\ apiLog = <<>>
  /\ removes = <<>>
  /\ rec = RecIdle
  /\ calc = CalcIdle
  /\ hasFile = TRUE
  /\ http = <<>>
  /\ \E q \in [Requests -> {ConcRequest("single"), ConcRequest("multi")}] :
       conc = [storage |-> {}, reqs |-> q]

\* the upload middleware stores the file of request r: the filename callback
\* picks the name, the file is written there, replacing a file of that name
Q_Upload ==
  /\ mode = "concurrent"
  /\ \E r \in Requests, name \in NamePool :
       /\ conc.reqs[r].pc = "upload"
       /\ conc' =
            [storage |-> { f \in conc.storage : f[1] # name } \cup { <<name, r>> },
             reqs |-> [conc.reqs EXCEPT ![r].path = name, ![r].pc = "readFile"]]
  /\ UNCHANGED <<calc, hasFile, http, rec, mode, model, pc, fileExists, idx,
                 inflight, response, extractedData, results, outcome, error,
                 result, apiLog, removes>>

\* await fs.readFile(fileData.path) (366, 462): with no file at the path it
\* rejects; extractBillData then rethrows, extractBillDataWithAllModels goes
\* to its catch
Q_ReadFile ==
  /\ mode = "concurrent"
  /\ \E r \in Requests :
       /\ conc.reqs[r].pc = "readFile"
       /\ LET owner == StoredBy(conc.storage, conc.reqs[r].path)
          IN conc' =
               [conc EXCEPT
                  !.reqs[r].read = owner,
                  !.reqs[r].pc =
                    IF owner # 0 THEN "process"
                    ELSE IF conc.reqs[r].kind = "multi" THEN "remove"
                    ELSE "done"]
  /\ UNCHANGED <<calc, hasFile, http, rec, mode, model, pc, fileExists, idx,
                 inflight, response, extractedData, results, outcome, error,
                 result, apiLog, removes>>

\* text extraction, the remote calls and the reply checks of request r:
\* extractBillData reaches fs.remove (430) only when all succeed,
\* extractBillDataWithAllModels reaches one (589 or 597) either way
Q_Process ==
  /\ mode = "concurrent"
  /\ \E r \in Requests, ok \in BOOLEAN :
       /\ conc.reqs[r].pc = "process"
       /\ conc' =
            [conc EXCEPT
               !.reqs[r].pc =
                 IF conc.reqs[r].kind = "single" /\ ~ok THEN "done"
                 ELSE "remove"]
  /\ UNCHANGED <<calc, hasFile, http, rec, mode, model, pc, fileExists, idx,
                 inflight, response, extractedData, results, outcome, error,
                 result, apiLog, removes>>

\* await fs.remove(fileData.path) (430, 589, 597) of request r
Q_Remove ==
  /\ mode = "concurrent"
  /\ \E r \in Requests :
       /\ conc.reqs[r].pc = "remove"
       /\ conc' =
            [storage |-> { f \in conc.storage : f[1] # conc.reqs[r].path },
             reqs |->
               [conc.reqs EXCEPT
                  ![r].removed = StoredBy(conc.storage, conc.reqs[r].path),
                  ![r].wiped =
                    \E o \in Requests \ {r} :
                      /\ conc.reqs[o].pc = "readFile"
                      /\ conc.reqs[o].path = conc.reqs[r].path,
                  ![r].pc = "done"]]
  /\ UNCHANGED <<calc, hasFile, http, rec, mode, model, pc, fileExists, idx,
                 inflight, response, extractedData, results, outcome, error,
                 result, apiLog, removes>>

NextConcurrent ==
  \/ Q_Upload
  \/ Q_ReadFile
  \/ Q_Process
  \/ Q_Remove

SpecConcurrent == InitConcurrent /\ [][NextConcurrent]_vars

\* request r read and deleted no upload but its own, and its removal took
\* no file away from a request that still had to read it
OwnFileOnly(r) ==
  /\ conc.reqs[r].read \in {0, r}
  /\ conc.reqs[r].removed \in {0, r}
  /\ ~conc.reqs[r].wiped

\* C19 (as claimed): in every interleaving of concurrent upload requests,
\* each request reads and deletes only the scratch file it created: no
\* request's cleanup removes a file another request in flight has not yet
\* read, and no request reads another request's file.
C19_PrivateScratchFiles ==
  mode = "concurrent" => \A r \in Requests : OwnFileOnly(r)

\* C19, for requests whose uploads were stored under different names
C19_PrivateWhenNamesDiffer ==
  (/\ mode = "concurrent"
   /\ \A r, o \in Requests :
        (r # o /\ conc.reqs[r].path # "") => conc.reqs[r].path # conc.reqs[o].path)
    => \A r \in Requests : OwnFileOnly(r)

====
